---- MODULE Spec2Model ----
(***************************************************************************)
(* Query routing and retrieval fusion of the airline assistant:            *)
(*   - generate_cypher_query (Tools/cypher_tool.py), the template router;  *)
(*   - the LangGraph workflow of agent.py (classifier, extractor, the      *)
(*     graph branch, the vector branch, the synthesizer), executed in      *)
(*     supersteps: the nodes of one superstep run concurrently, their      *)
(*     writes are applied when all of them have returned, and the nodes    *)
(*     their outgoing edges name form the next superstep;                  *)
(*   - Neo4jConnection (Tools/database.py), search_knowledge_base          *)
(*     (Tools/rag_tool.py) and optimize_query (prompt_engineer_tool.py).   *)
(***************************************************************************)
EXTENDS Integers, Sequences, FiniteSets, TLC

VARIABLES
  state,          \* HybridState: channel name -> value (Absent = key not set)
  entities_in,    \* the entities mapping as handed in by the caller (history)
  ret,            \* results of the direct calls of a tool function (history)
  wf,             \* "router" | "search" | "running" | "end" | "raised"
  tasks,          \* node -> "idle" | "scheduled" | "running" | "done" | "raised"
  writes,         \* node -> the update the node returned in this superstep
  runs,           \* node -> number of times the node was started
  finished,       \* nodes that have returned
  db,             \* the Neo4jConnection of cypher_exec_node and its usage
  ext,            \* the other capabilities: whether the RAG artifacts were
                  \* loaded at import, the k of the search calls, the calls
                  \* made to embedder, index and answer model, the failures
  prompt          \* the sections of the synthesis prompt (Absent before)

vars == <<state, entities_in, ret, wf, tasks, writes, runs, finished, db, ext, prompt>>

----------------------------------------------------------------------------
(* Bounds *)

MaxDigits == 2      \* longest flight_number string
MaxCalls  == 2      \* direct calls of generate_cypher_query on one mapping
MaxRows   == 2      \* most rows a graph query returns
MaxIndex  == 2      \* most vectors in the FAISS index
CorpusLen == 2      \* len(feature_texts)

----------------------------------------------------------------------------
(* Python values.  Every value is a record with a tag t, so that values of *)
(* different Python types compare unequal.                                 *)

Absent   == [t |-> "absent"]                  \* key missing from a dict
None     == [t |-> "None"]
Str(s)   == [t |-> "str", s |-> s]            \* an opaque non-empty string
Chars(c) == [t |-> "chars", c |-> c]          \* a string given by its characters
PyInt(n) == [t |-> "int", n |-> n]
List(l)  == [t |-> "list", l |-> l]

Digits == {"0", "1"}
Alphabet == Digits \cup {"A"}

DigitValue(ch) == IF ch = "1" THEN 1 ELSE 0

\* bool(v) of Python
Truthy(v) ==
  CASE v.t = "absent" -> FALSE
    [] v.t = "None"   -> FALSE
    [] v.t = "str"    -> TRUE
    [] v.t = "chars"  -> Len(v.c) > 0
    [] v.t = "int"    -> v.n # 0
    [] v.t = "list"   -> Len(v.l) > 0
    [] OTHER          -> TRUE

\* isinstance(v, str) and v.isdigit()
isdigit(v) ==
  /\ v.t = "chars"
  /\ Len(v.c) > 0
  /\ \A i \in 1..Len(v.c) : v.c[i] \in Digits

RECURSIVE ParseInt(_)
\* int(s) for a string of decimal digits
ParseInt(c) ==
  IF c = <<>> THEN 0
  ELSE 10 * ParseInt(SubSeq(c, 1, Len(c) - 1)) + DigitValue(c[Len(c)])

----------------------------------------------------------------------------
(* Entities *)

EntityFields ==
  {"origin", "destination", "station_code", "flight_number", "fleet_desc",
   "record_locator", "level", "p_class"}

Intents ==
  {"flight_search", "analyze_delays", "satisfaction_analysis", "passenger_profiling"}

\* dict.get(key)
Get(d, k) == IF k \in DOMAIN d THEN d[k] ELSE None

FlightStrings ==
  UNION {[1..n -> Alphabet] : n \in 1..MaxDigits}

SampleValue(f) ==
  CASE f = "origin"         -> "IAX"
    [] f = "destination"    -> "LAX"
    [] f = "station_code"   -> "ORD"
    [] f = "fleet_desc"     -> "737"
    [] f = "record_locator" -> "ABC123"
    [] f = "level"          -> "Gold"
    [] f = "p_class"        -> "Business"
    [] OTHER                -> "x"

\* what the extraction chain can return for one field (model_dump of
\* AirlineEntities: every field is Optional)
ExtractedValues(f) ==
  IF f = "flight_number"
  THEN {None} \cup {Chars(c) : c \in FlightStrings}
  ELSE {None, Str(SampleValue(f))}

\* what a direct caller of the router can pass: also an integer flight number
CallerValues(f) ==
  IF f = "flight_number"
  THEN ExtractedValues(f) \cup {PyInt(0), PyInt(7)}
  ELSE ExtractedValues(f)

----------------------------------------------------------------------------
(* generate_cypher_query *)

\* Templates with the flight-number lookup tested before the route lookups
TemplatesFlightNumberFirst ==
  << [id |-> "Q3",  intent |-> "flight_search",         needs |-> {"flight_number"},
      placeholders |-> {"flight_number"}, limit |-> 0],
     [id |-> "Q2",  intent |-> "flight_search",         needs |-> {"destination"},
      placeholders |-> {"destination"}, limit |-> 15],
     [id |-> "Q1",  intent |-> "flight_search",         needs |-> {"origin", "destination"},
      placeholders |-> {"origin", "destination"}, limit |-> 10],
     [id |-> "Q4",  intent |-> "analyze_delays",        needs |-> {"origin", "destination"},
      placeholders |-> {"origin", "destination"}, limit |-> 0],
     [id |-> "Q5",  intent |-> "analyze_delays",        needs |-> {"origin"},
      placeholders |-> {"origin"}, limit |-> 5],
     [id |-> "Q6",  intent |-> "analyze_delays",        needs |-> {"fleet_desc"},
      placeholders |-> {"fleet_desc"}, limit |-> 5],
     [id |-> "Q7",  intent |-> "satisfaction_analysis", needs |-> {"p_class"},
      placeholders |-> {"p_class"}, limit |-> 0],
     [id |-> "Q8",  intent |-> "satisfaction_analysis", needs |-> {},
      placeholders |-> {}, limit |-> 5],
     [id |-> "Q9",  intent |-> "passenger_profiling",   needs |-> {"level"},
      placeholders |-> {"level"}, limit |-> 0],
     [id |-> "Q10", intent |-> "passenger_profiling",   needs |-> {"record_locator"},
      placeholders |-> {"record_locator"}, limit |-> 0] >>

\* the query templates in the order of the if-chain
Templates ==
  << [id |-> "Q1",  intent |-> "flight_search",         needs |-> {"origin", "destination"},
      placeholders |-> {"origin", "destination"}, limit |-> 10],
     [id |-> "Q2",  intent |-> "flight_search",         needs |-> {"destination"},
      placeholders |-> {"destination"}, limit |-> 15],
     [id |-> "Q3",  intent |-> "flight_search",         needs |-> {"flight_number"},
      placeholders |-> {"flight_number"}, limit |-> 0],
     [id |-> "Q4",  intent |-> "analyze_delays",        needs |-> {"origin", "destination"},
      placeholders |-> {"origin", "destination"}, limit |-> 0],
     [id |-> "Q5",  intent |-> "analyze_delays",        needs |-> {"origin"},
      placeholders |-> {"origin"}, limit |-> 5],
     [id |-> "Q6",  intent |-> "analyze_delays",        needs |-> {"fleet_desc"},
      placeholders |-> {"fleet_desc"}, limit |-> 5],
     [id |-> "Q7",  intent |-> "satisfaction_analysis", needs |-> {"p_class"},
      placeholders |-> {"p_class"}, limit |-> 0],
     [id |-> "Q8",  intent |-> "satisfaction_analysis", needs |-> {},
      placeholders |-> {}, limit |-> 5],
     [id |-> "Q9",  intent |-> "passenger_profiling",   needs |-> {"level"},
      placeholders |-> {"level"}, limit |-> 0],
     [id |-> "Q10", intent |-> "passenger_profiling",   needs |-> {"record_locator"},
      placeholders |-> {"record_locator"}, limit |-> 0] >>

Query(id) == [t |-> "str", s |-> id]

\* the DATA TYPE CORRECTION block left out
NormalizeFlightNumber_Identity(entities) == entities

\* the DATA TYPE CORRECTION block: it assigns into the caller's mapping
NormalizeFlightNumber(entities) ==
  IF Truthy(Get(entities, "flight_number")) /\ isdigit(entities["flight_number"])
  THEN [entities EXCEPT !["flight_number"] = PyInt(ParseInt(entities["flight_number"].c))]
  ELSE entities

\* the condition with the test of the intent left out
Matches_AnyIntent(tpl, intent, entities) ==
  \A f \in tpl.needs : Truthy(Get(entities, f))

\* the condition of the if statement of one template
Matches(tpl, intent, entities) ==
  /\ intent = tpl.intent
  /\ \A f \in tpl.needs : Truthy(Get(entities, f))

MatchingRows(rows, intent, entities) ==
  {i \in 1..Len(rows) : Matches(rows[i], intent, entities)}

Min(S) == CHOOSE x \in S : \A y \in S : x <= y

Max(S) == CHOOSE x \in S : \A y \in S : x >= y

\* the if-chain with every matching template assigning query and one
\* return at the end: the last match wins
SelectTemplate_LastMatch(rows, intent, entities) ==
  LET m == MatchingRows(rows, intent, entities)
  IN  IF m = {} THEN None ELSE Query(rows[Max(m)].id)

\* the if-chain with the worst-flights default as the fallback of every
\* intent
SelectTemplate_DefaultFallback(rows, intent, entities) ==
  LET m == MatchingRows(rows, intent, entities)
  IN  IF m = {} THEN Query("Q8") ELSE Query(rows[Min(m)].id)

\* the if-chain: the first template whose condition holds returns
SelectTemplate(rows, intent, entities) ==
  LET m == MatchingRows(rows, intent, entities)
  IN  IF m = {} THEN None ELSE Query(rows[Min(m)].id)

\* generate_cypher_query with the predicates evaluated on the mapping as
\* given and the type correction applied afterwards
generate_cypher_query_CorrectAfter(intent, entities) ==
  LET e == NormalizeFlightNumber(entities)
      q == SelectTemplate(Templates, intent, entities)
  IN  [query |-> q,
       params |-> IF q = None THEN None ELSE [t |-> "dict", d |-> e],
       entities |-> e]

\* generate_cypher_query returning the parameters without the p_class key
generate_cypher_query_RenamedClass(intent, entities) ==
  LET e == NormalizeFlightNumber(entities)
      q == SelectTemplate(Templates, intent, e)
  IN  [query |-> q,
       params |-> IF q = None THEN None
                  ELSE [t |-> "dict", d |-> [f \in DOMAIN e \ {"p_class"} |-> e[f]]],
       entities |-> e]

\* result: the returned pair and the caller's mapping after the call
generate_cypher_query(intent, entities) ==
  LET e == NormalizeFlightNumber(entities)
      q == SelectTemplate(Templates, intent, e)
  IN  [query |-> q,
       params |-> IF q = None THEN None ELSE [t |-> "dict", d |-> e],
       entities |-> e]

----------------------------------------------------------------------------
(* Entity mappings *)

PlainFields == EntityFields \ {"flight_number"}

\* the mapping with the fields of S set to their sample value, the flight
\* number set to fn, and every other field None
Entities(S, fn) ==
  [f \in EntityFields |->
     IF f = "flight_number" THEN fn
     ELSE IF f \in S THEN Str(SampleValue(f)) ELSE None]

\* the mappings a direct caller of the router can hold
RouterEntities ==
  {Entities(S, fn) : S \in SUBSET PlainFields, fn \in CallerValues("flight_number")}

\* the intents a direct caller can pass (a string outside the four included)
RouterIntents == Intents \cup {"other"}

----------------------------------------------------------------------------
(* HybridState and the workflow graph *)

Keys ==
  {"user_query", "retrieval_mode", "selected_model", "intent", "entities",
   "cypher_sql", "cypher_params", "cypher_results", "optimized_query",
   "vector_docs", "final_answer"}

Nodes ==
  {"classifier", "extractor", "cypher_gen", "cypher_exec", "prompt_eng",
   "rag_search", "synthesizer"}

Modes == {"baseline", "embeddings", "hybrid"}

Dict(d) == [t |-> "dict", d |-> d]

\* state.get(key)
StateGet(st, k) == IF st[k] = Absent THEN None ELSE st[k]

\* Edges with the synthesizer wired to cypher_gen instead of cypher_exec
EdgesSynthAfterGen ==
  { <<"classifier", "extractor">>,
    <<"cypher_gen", "cypher_exec">>,
    <<"cypher_gen", "synthesizer">>,
    <<"prompt_eng", "rag_search">>,
    <<"rag_search", "synthesizer">> }

\* Edges with prompt_eng wired to the synthesizer as well
EdgesEarlySynthesizer ==
  { <<"classifier", "extractor">>,
    <<"cypher_gen", "cypher_exec">>,
    <<"cypher_exec", "synthesizer">>,
    <<"prompt_eng", "rag_search">>,
    <<"prompt_eng", "synthesizer">>,
    <<"rag_search", "synthesizer">> }

\* workflow.add_edge(a, b); START and END are not nodes
Edges ==
  { <<"classifier", "extractor">>,
    <<"cypher_gen", "cypher_exec">>,
    <<"cypher_exec", "synthesizer">>,
    <<"prompt_eng", "rag_search">>,
    <<"rag_search", "synthesizer">> }

\* the extractor wired to START as well
EntryNodes_Both == {"classifier", "extractor"}

EntryNodes == {"classifier"}

\* route_mode with the baseline test lost: baseline runs both branches
route_mode_BaselineBoth(mode) ==
  IF mode = "embeddings" THEN {"prompt_eng"}
  ELSE {"cypher_gen", "prompt_eng"}

\* route_mode with the embeddings test lost: embeddings runs both branches
route_mode_EmbeddingsBoth(mode) ==
  IF mode = "baseline" THEN {"cypher_gen"}
  ELSE {"cypher_gen", "prompt_eng"}

\* route_mode with hybrid tested by name and no branch for any other value
route_mode_UnknownNone(mode) ==
  IF mode = "baseline" THEN {"cypher_gen"}
  ELSE IF mode = "embeddings" THEN {"prompt_eng"}
  ELSE IF mode = "hybrid" THEN {"cypher_gen", "prompt_eng"}
  ELSE {}

route_mode(mode) ==
  IF mode = "baseline" THEN {"cypher_gen"}
  ELSE IF mode = "embeddings" THEN {"prompt_eng"}
  ELSE {"cypher_gen", "prompt_eng"}

\* the nodes the edges leaving n name, given the state after n's update
Successors(n, st) ==
  IF n = "extractor" THEN route_mode(st["retrieval_mode"].s)
  ELSE {m \in Nodes : <<n, m>> \in Edges}

----------------------------------------------------------------------------
(* The questions of the router test, by the entity fields they name *)

Questions ==
  { [id |-> "Q1",  names |-> {"origin", "destination"}, flight |-> FALSE],
    [id |-> "Q2",  names |-> {"destination"},           flight |-> FALSE],
    [id |-> "Q3",  names |-> {},                        flight |-> TRUE],
    [id |-> "Q4",  names |-> {"origin", "destination"}, flight |-> FALSE],
    [id |-> "Q5",  names |-> {"origin"},                flight |-> FALSE],
    [id |-> "Q6",  names |-> {"fleet_desc"},            flight |-> FALSE],
    [id |-> "Q7",  names |-> {"p_class"},               flight |-> FALSE],
    [id |-> "Q8",  names |-> {},                        flight |-> FALSE],
    [id |-> "Q9",  names |-> {"level"},                 flight |-> FALSE],
    [id |-> "Q10", names |-> {"record_locator"},        flight |-> FALSE] }

QuestionIds == {q.id : q \in Questions}

\* expected_intent of the test case
expected_intent(id) ==
  CASE id \in {"Q1", "Q2", "Q3"} -> "flight_search"
    [] id \in {"Q4", "Q5", "Q6"} -> "analyze_delays"
    [] id \in {"Q7", "Q8"}       -> "satisfaction_analysis"
    [] OTHER                     -> "passenger_profiling"

Question(id) == CHOOSE q \in Questions : q.id = id

\* what extraction_chain.invoke(...).model_dump() can be for a question
ExtractorResponses(id) ==
  LET q == Question(id)
  IN  IF q.flight
      THEN {Entities(q.names, Chars(c)) : c \in FlightStrings}
      ELSE {Entities(q.names, None)}

----------------------------------------------------------------------------
(* Neo4jConnection *)

\* no connection made yet; run is what session.run did and data what
\* db.query returned (Absent before, run also without a driver)
NoDb ==
  [conn |-> "none", connects |-> 0, query_calls |-> 0, outcome |-> "none",
   data |-> Absent, run |-> Absent]

Rows(n) == List([i \in 1..n |-> i])

\* session.run raising
Raises == [t |-> "raises"]

\* what session.run does with the query: it raises, or the records come
RunOutcomes == {Raises} \cup {Rows(n) : n \in 0..MaxRows}

\* Neo4jConnection.query answering a failure with the empty list
Neo4jConnection_query_EmptyOnFailure(conn, run) ==
  IF conn = "nodriver" THEN List(<<>>)
  ELSE IF run = Raises THEN List(<<>>)
  ELSE run

\* Neo4jConnection.query: None without a driver or when session.run raises,
\* the list of records otherwise
Neo4jConnection_query(conn, run) ==
  IF conn = "nodriver" THEN None
  ELSE IF run = Raises THEN None
  ELSE run

\* Neo4jConnection.close doing nothing
Close_Never(conn) == conn

\* Neo4jConnection.close
Close(conn) == IF conn = "open" THEN "closed" ELSE conn

----------------------------------------------------------------------------
(* Workflow nodes.  Start(n) is the runtime handing the state to the node; *)
(* the node's own action is its body up to the return (or the raise).      *)

Running(n) == wf = "running" /\ tasks[n] = "running"

Return(n, update) ==
  /\ tasks' = [tasks EXCEPT ![n] = "done"]
  /\ writes' = [writes EXCEPT ![n] = update]
  /\ finished' = finished \cup {n}
  /\ wf' = wf

\* the exception caught inside the node, which returns no update
Raise_Swallowed(n) ==
  /\ tasks' = [tasks EXCEPT ![n] = "done"]
  /\ finished' = finished \cup {n}
  /\ wf' = wf
  /\ UNCHANGED writes

Raise(n) ==
  /\ tasks' = [tasks EXCEPT ![n] = "raised"]
  /\ wf' = "raised"
  /\ UNCHANGED <<writes, finished>>

\* the capability log after a failure of capability c
Failed(c) == [ext EXCEPT !.failures = @ \cup {c}]

Start(n) ==
  /\ wf = "running"
  /\ tasks[n] = "scheduled"
  /\ tasks' = [tasks EXCEPT ![n] = "running"]
  /\ runs' = [runs EXCEPT ![n] = @ + 1]
  /\ UNCHANGED <<state, entities_in, ret, wf, writes, finished, db, ext, prompt>>

classify_node ==
  /\ Running("classifier")
  /\ \/ /\ \E i \in Intents : Return("classifier", [intent |-> Str(i)])
        /\ UNCHANGED ext
     \/ /\ Raise("classifier")
        /\ ext' = Failed("classify")
  /\ UNCHANGED <<state, entities_in, ret, runs, db, prompt>>

extract_node ==
  /\ Running("extractor")
  /\ \/ \E e \in ExtractorResponses(state["user_query"].s) :
          /\ Return("extractor", [entities |-> Dict(e)])
          /\ entities_in' = Dict(e)
          /\ UNCHANGED ext
     \/ /\ Raise("extractor")
        /\ ext' = Failed("extract")
        /\ UNCHANGED entities_in
  /\ UNCHANGED <<state, ret, runs, db, prompt>>

\* generate_cypher_query assigns into state["entities"] itself
cypher_gen_node ==
  /\ Running("cypher_gen")
  /\ LET r == generate_cypher_query(state["intent"].s, state["entities"].d)
     IN  /\ state' = [state EXCEPT !["entities"] = Dict(r.entities)]
         /\ Return("cypher_gen", [cypher_sql |-> r.query, cypher_params |-> r.params])
  /\ UNCHANGED <<entities_in, ret, runs, db, ext, prompt>>

\* cypher_exec_node without its early return
NoQuery_Never(st) == FALSE

\* if not state.get("cypher_sql")
NoQuery(st) == ~Truthy(StateGet(st, "cypher_sql"))

cypher_exec_skip ==
  /\ Running("cypher_exec")
  /\ NoQuery(state)
  /\ Return("cypher_exec", [cypher_results |-> List(<<>>)])
  /\ UNCHANGED <<state, entities_in, ret, runs, db, ext, prompt>>

\* db = Neo4jConnection(): the driver stays None when connecting fails
cypher_exec_connect ==
  /\ Running("cypher_exec")
  /\ ~NoQuery(state)
  /\ db.conn = "none"
  /\ \E c \in {"open", "nodriver"} :
       db' = [db EXCEPT !.conn = c, !.connects = @ + 1]
  /\ UNCHANGED <<state, entities_in, ret, wf, tasks, writes, runs, finished, ext, prompt>>

\* data = db.query(...); len(data); return; finally db.close()
cypher_exec_query ==
  /\ Running("cypher_exec")
  /\ db.conn \in {"open", "nodriver"}
  /\ \E run \in (IF db.conn = "nodriver" THEN {Absent} ELSE RunOutcomes) :
       LET data == Neo4jConnection_query(db.conn, run)
       IN  /\ db' = [db EXCEPT !.conn = Close(db.conn), !.query_calls = @ + 1,
                               !.outcome = IF data = None THEN "failed" ELSE "rows",
                               !.data = data, !.run = run]
           /\ IF data = None
              THEN Raise("cypher_exec")         \* len(None) is a TypeError
              ELSE Return("cypher_exec", [cypher_results |-> data])
  /\ UNCHANGED <<state, entities_in, ret, runs, ext, prompt>>

----------------------------------------------------------------------------
(* Vector branch *)

\* optimize_query with the except branch returning nothing
optimize_query_NoFallback(user_input) ==
  { [text |-> Str("optimized"), failed |-> FALSE],
    [text |-> None,             failed |-> TRUE] }

\* optimize_query: the rewritten text, or the input when the model call raises
optimize_query(user_input) ==
  { [text |-> Str("optimized"), failed |-> FALSE],
    [text |-> user_input,       failed |-> TRUE] }

prompt_eng_node ==
  /\ Running("prompt_eng")
  /\ \E o \in optimize_query(state["user_query"]) :
       /\ Return("prompt_eng", [optimized_query |-> o.text])
       /\ ext' = IF o.failed THEN Failed("rewrite") ELSE ext
  /\ UNCHANGED <<state, entities_in, ret, runs, db, prompt>>

K == 3

Snippet(i) == [t |-> "snippet", i |-> i]

feature_texts == [i \in 1..CorpusLen |-> Snippet(i)]

NotLoaded == Str("Error: Database not loaded.")

Injective(f) == \A i, j \in DOMAIN f : i # j => f[i] # f[j]

\* index.search(query_vec, k)[1][0]: the positions of the nearest vectors,
\* padded with -1 when the index holds fewer than k
FaissHits(k) ==
  UNION { { [i \in 1..k |-> IF i <= Len(h) THEN h[i] ELSE -1] :
              h \in {g \in [1..(IF n < k THEN n ELSE k) -> 0..(n - 1)] : Injective(g)} } :
          n \in 0..MaxIndex }

\* feature_texts[idx] of Python: a negative idx counts from the end
PyIndex(l, idx) == IF idx >= 0 THEN l[idx + 1] ELSE l[Len(l) + idx + 1]

RECURSIVE Retrieve(_, _)
\* the loop over indices[0]
Retrieve(hits, texts) ==
  IF hits = <<>> THEN <<>>
  ELSE LET rest == Retrieve(Tail(hits), texts)
       IN  IF Head(hits) < Len(texts)
           THEN <<PyIndex(texts, Head(hits))>> \o rest
           ELSE rest

\* search_knowledge_base with the guard answering with an empty list
search_knowledge_base_EmptyWhenNotLoaded(loaded, k, hits) ==
  IF ~loaded THEN List(<<>>)
  ELSE List(Retrieve(hits, feature_texts))

\* hits is what index.search returns for the embedded query and k
search_knowledge_base(loaded, k, hits) ==
  IF ~loaded THEN List(<<NotLoaded>>)
  ELSE List(Retrieve(hits, feature_texts))

\* embedder.encode and index.search are reached only past the guard
Attempts(loaded) == IF loaded THEN 1 ELSE 0

\* the capability log after search_knowledge_base(query, k): hits is what
\* index.search returned (Absent when the guard returned first)
Searched(query, k, hits) ==
  [ext EXCEPT !.k = k,
              !.searched = query,
              !.hits = IF ext.loaded THEN List(hits) ELSE Absent,
              !.encodes = @ + Attempts(ext.loaded),
              !.searches = @ + Attempts(ext.loaded)]

\* search_knowledge_base(state["optimized_query"]): k is the default
rag_search_node ==
  /\ Running("rag_search")
  /\ \E hits \in FaissHits(K) :
       /\ Return("rag_search", [vector_docs |-> search_knowledge_base(ext.loaded, K, hits)])
       /\ ext' = Searched(state["optimized_query"], K, hits)
  /\ UNCHANGED <<state, entities_in, ret, runs, db, prompt>>

----------------------------------------------------------------------------
(* Synthesizer *)

SkippedStructured   == Str("Skipped (Mode: Embeddings Only)")
NoStructured        == Str("No structured data found.")
SkippedUnstructured == Str("Skipped (Mode: Baseline Only)")
NoUnstructured      == Str("No text context found.")

\* structured_data with the truth test in place of "is not None"
structured_data_TruthyOnly(st) ==
  IF Truthy(StateGet(st, "cypher_results"))
  THEN [t |-> "repr", of |-> st["cypher_results"]]
  ELSE SkippedStructured

structured_data(st) ==
  IF StateGet(st, "cypher_results") # None
  THEN IF Truthy(st["cypher_results"])
       THEN [t |-> "repr", of |-> st["cypher_results"]]
       ELSE NoStructured
  ELSE SkippedStructured

\* "\n\n".join(docs): one element joins to itself
join(docs) ==
  IF Len(docs.l) = 1 THEN docs.l[1] ELSE [t |-> "join", of |-> docs]

\* unstructured_data with the placeholder taken for an empty result
unstructured_data_PlaceholderAsNoData(st) ==
  IF StateGet(st, "vector_docs") # None
  THEN IF Truthy(st["vector_docs"]) /\ st["vector_docs"] # List(<<NotLoaded>>)
       THEN join(st["vector_docs"])
       ELSE NoUnstructured
  ELSE SkippedUnstructured

unstructured_data(st) ==
  IF StateGet(st, "vector_docs") # None
  THEN IF Truthy(st["vector_docs"])
       THEN join(st["vector_docs"])
       ELSE NoUnstructured
  ELSE SkippedUnstructured

\* f"Error during synthesis: {e}"
SynthesisError(e) == [t |-> "str", s |-> "Error during synthesis: ", e |-> e]

KnownModels == {"Gemini Flash", "Mistral-7B", "Zephyr-7B"}

\* get_llm falling back to a backend for a name it does not know
get_llm_DefaultBackend(model_name) ==
  { [ok |-> TRUE,  e |-> "none"],
    [ok |-> FALSE, e |-> "get_llm"] }

\* get_llm: the backend of a known name, or ValueError when its key is
\* not in the environment; ValueError("Unknown model: ...") otherwise
get_llm(model_name) ==
  IF model_name \in KnownModels
  THEN { [ok |-> TRUE,  e |-> "none"],
         [ok |-> FALSE, e |-> "get_llm"] }
  ELSE { [ok |-> FALSE, e |-> "Unknown model"] }

\* the try block with llm.invoke called again after a failure
SynthesisOutcomes_Retry(model_name) ==
  UNION { IF g.ok
          THEN { [answer |-> Str("answer"), invoked |-> 1, failed |-> FALSE],
                 [answer |-> Str("answer"), invoked |-> 2, failed |-> TRUE] }
          ELSE { [answer |-> SynthesisError(g.e), invoked |-> 0, failed |-> TRUE] } :
          g \in get_llm(model_name) }

\* the try block: get_llm raises, or llm.invoke raises, or the answer
\* comes back; invoked counts the llm.invoke calls
SynthesisOutcomes(model_name) ==
  UNION { IF g.ok
          THEN { [answer |-> Str("answer"), invoked |-> 1, failed |-> FALSE],
                 [answer |-> SynthesisError("invoke"), invoked |-> 1, failed |-> TRUE] }
          ELSE { [answer |-> SynthesisError(g.e), invoked |-> 0, failed |-> TRUE] } :
          g \in get_llm(model_name) }

\* state.get("selected_model", "Gemini Flash")
model_name(st) ==
  IF st["selected_model"] = Absent THEN "Gemini Flash" ELSE st["selected_model"].s

Answers == {o.answer : o \in SynthesisOutcomes(model_name(state))}

synthesizer_node ==
  /\ Running("synthesizer")
  /\ prompt' = [structured |-> structured_data(state),
                unstructured |-> unstructured_data(state)]
  /\ \E o \in SynthesisOutcomes(model_name(state)) :
       /\ Return("synthesizer", [final_answer |-> o.answer])
       /\ ext' = [ext EXCEPT !.invokes = @ + o.invoked,
                             !.failures = IF o.failed THEN @ \cup {"answer"} ELSE @]
  /\ UNCHANGED <<state, entities_in, ret, runs, db>>

----------------------------------------------------------------------------
(* The superstep loop of the compiled graph (app.invoke) *)

Active == {n \in Nodes : tasks[n] # "idle"}

Written(k) == {n \in Nodes : k \in DOMAIN writes[n]}

\* the updates of one node only applied to the state
ApplyWrites_SingleWriter(st) ==
  LET w == {n \in Nodes : DOMAIN writes[n] # {}}
  IN  IF w = {} THEN st
      ELSE LET n == CHOOSE m \in w : TRUE
           IN  [k \in Keys |-> IF k \in DOMAIN writes[n] THEN writes[n][k] ELSE st[k]]

ApplyWrites(st) ==
  [k \in Keys |->
     IF Written(k) # {} THEN writes[CHOOSE n \in Written(k) : TRUE][k] ELSE st[k]]

NoWrites == [n \in Nodes |-> <<>>]

\* all nodes of the superstep have returned: apply their updates and
\* schedule the nodes their edges name; none left means END
EndStep ==
  /\ wf = "running"
  /\ Active # {}
  /\ \A n \in Active : tasks[n] = "done"
  /\ LET st   == ApplyWrites(state)
         next == UNION {Successors(n, st) : n \in Active}
     IN  /\ state' = st
         /\ tasks' = [n \in Nodes |-> IF n \in next THEN "scheduled" ELSE "idle"]
         /\ wf' = IF next = {} THEN "end" ELSE "running"
  /\ writes' = NoWrites
  /\ UNCHANGED <<entities_in, ret, runs, finished, db, ext, prompt>>

\* nothing called yet; loaded tells whether rag_tool's import found the
\* index, the texts and the embedding model
NoCalls(loaded) ==
  [loaded |-> loaded, k |-> K, encodes |-> 0, searches |-> 0, invokes |-> 0,
   failures |-> {}, searched |-> Absent, hits |-> Absent]

\* inputs of app.invoke: user_query, retrieval_mode, selected_model
Inputs(q, m) ==
  [k \in Keys |->
     CASE k = "user_query"     -> Str(q)
       [] k = "retrieval_mode" -> Str(m)
       [] k = "selected_model" -> Str("Gemini Flash")
       [] OTHER                -> Absent]

Init ==
  /\ \E q \in QuestionIds, m \in Modes : state = Inputs(q, m)
  /\ entities_in = Absent
  /\ ret = <<>>
  /\ wf = "running"
  /\ tasks = [n \in Nodes |-> IF n \in EntryNodes THEN "scheduled" ELSE "idle"]
  /\ writes = NoWrites
  /\ runs = [n \in Nodes |-> 0]
  /\ finished = {}
  /\ db = NoDb
  /\ \E l \in BOOLEAN : ext = NoCalls(l)
  /\ prompt = Absent

Next ==
  \/ \E n \in Nodes : Start(n)
  \/ classify_node
  \/ extract_node
  \/ cypher_gen_node
  \/ cypher_exec_skip
  \/ cypher_exec_connect
  \/ cypher_exec_query
  \/ prompt_eng_node
  \/ rag_search_node
  \/ synthesizer_node
  \/ EndStep

Spec == Init /\ [][Next]_vars

----------------------------------------------------------------------------
(* The router called directly (process_user_query): a caller holds one     *)
(* entities mapping and calls generate_cypher_query on it, possibly again. *)

RouterState(i, e) ==
  [k \in Keys |->
     CASE k = "intent"   -> Str(i)
       [] k = "entities" -> Dict(e)
       [] OTHER          -> Absent]

InitRouter ==
  /\ \E i \in RouterIntents, e \in RouterEntities :
       /\ state = RouterState(i, e)
       /\ entities_in = Dict(e)
  /\ ret = <<>>
  /\ wf = "router"
  /\ tasks = [n \in Nodes |-> "idle"]
  /\ writes = NoWrites
  /\ runs = [n \in Nodes |-> 0]
  /\ finished = {}
  /\ db = NoDb
  /\ ext = NoCalls(TRUE)
  /\ prompt = Absent

RouterCall ==
  /\ wf = "router"
  /\ Len(ret) < MaxCalls
  /\ LET r == generate_cypher_query(state["intent"].s, state["entities"].d)
     IN  /\ ret' = Append(ret, [query |-> r.query, params |-> r.params,
                                 given |-> state["entities"]])
         /\ state' = [state EXCEPT !["entities"] = Dict(r.entities)]
  /\ UNCHANGED <<entities_in, wf, tasks, writes, runs, finished, db, ext, prompt>>

NextRouter == RouterCall

SpecRouter == InitRouter /\ [][NextRouter]_vars

----------------------------------------------------------------------------
(* search_knowledge_base called directly with a query and a k *)

MaxK == 3

SearchState(q) ==
  [k \in Keys |-> IF k = "optimized_query" THEN q ELSE Absent]

SearchQueries == {Str(q) : q \in QuestionIds} \cup {Str("optimized")}

InitSearch ==
  /\ \E q \in SearchQueries : state = SearchState(q)
  /\ \E l \in BOOLEAN, k \in 1..MaxK : ext = [NoCalls(l) EXCEPT !.k = k]
  /\ entities_in = Absent
  /\ ret = <<>>
  /\ wf = "search"
  /\ tasks = [n \in Nodes |-> "idle"]
  /\ writes = NoWrites
  /\ runs = [n \in Nodes |-> 0]
  /\ finished = {}
  /\ db = NoDb
  /\ prompt = Absent

SearchCall ==
  /\ wf = "search"
  /\ ret = <<>>
  /\ \E hits \in FaissHits(ext.k) :
       /\ ret' = <<[docs |-> search_knowledge_base(ext.loaded, ext.k, hits),
                    hits |-> hits]>>
       /\ ext' = Searched(state["optimized_query"], ext.k, hits)
  /\ UNCHANGED <<state, entities_in, wf, tasks, writes, runs, finished, db, prompt>>

NextSearch == SearchCall

SpecSearch == InitSearch /\ [][NextSearch]_vars

----------------------------------------------------------------------------
(* Every entry point together, and the workflow under the scheduling of    *)
(* app.invoke: a scheduled node is run, a capability call returns or       *)
(* raises, and a finished superstep is followed by the next.               *)

InitAll == Init \/ InitRouter \/ InitSearch

NextAll == Next \/ NextRouter \/ NextSearch

SpecAll == InitAll /\ [][NextAll]_vars

FairSpec == Spec /\ WF_vars(Next)

----------------------------------------------------------------------------
(* Text serialization of the journeys: the index builder                   *)
(* (Tools/vector_embedding.py) and the comparison script                   *)
(* (Comparison/embedding_comparison.py).  A text is the sequence of the    *)
(* pieces its f-string concatenates; a number is formatted to its decimal  *)
(* characters.                                                             *)

MaxNegative == 2    \* how far below zero a score or a delay of a record goes
MaxScore == 11      \* highest food_satisfaction_score of a record
MaxDelay == 32      \* highest arrival_delay_minutes of a record

DecimalDigits == <<"0", "1", "2", "3", "4", "5", "6", "7", "8", "9">>

RECURSIVE format_nat(_)
format_nat(n) ==
  IF n < 10 THEN <<DecimalDigits[n + 1]>>
  ELSE format_nat(n \div 10) \o <<DecimalDigits[(n % 10) + 1]>>

\* {n} in an f-string, n an int
format_int(n) == IF n < 0 THEN <<"-">> \o format_nat(0 - n) ELSE format_nat(n)

\* one record of the query result (record.data())
JourneyRecord(score, delay) ==
  [passenger_id |-> "ABC123", loyalty |-> "Gold", gen |-> "Millennial",
   p_class |-> "Business", food_score |-> score, delay |-> delay,
   miles |-> "1200", legs |-> "2", flight_num |-> "101", fleet |-> "B737",
   origin_code |-> "IAX", dest_code |-> "LAX"]

JourneyRecords ==
  {JourneyRecord(s, d) : s \in (0 - MaxNegative)..MaxScore,
                          d \in (0 - MaxNegative)..MaxDelay}

\* the food description with the upper threshold exclusive
food_desc_StrictEight(score) ==
  IF score > 8 THEN "delicious and excellent"
  ELSE IF score <= 3 THEN "terrible and poor"
  ELSE "average"

\* vector_embedding.py: the if/elif/else on r['food_score']
food_desc(score) ==
  IF score >= 8 THEN "delicious and excellent"
  ELSE IF score <= 3 THEN "terrible and poor"
  ELSE "average"

\* vector_embedding.py: text_representation
text_representation(r) ==
  <<"Passenger ", r.passenger_id, " (", r.gen, ", ", r.loyalty, " status) ",
    "booked ", r.p_class, " class on Flight ", r.flight_num, " ",
    "(operated by ", r.fleet, "). ",
    "The journey from ", r.origin_code, " to ", r.dest_code, " ",
    "covered ", r.miles, " miles across ", r.legs, " leg(s). ",
    "Feedback: The food was ", food_desc(r.food_score), " (rated ">>
    \o format_int(r.food_score) \o
  <<"/10). ", "The flight had an arrival delay of ">>
    \o format_int(r.delay) \o
  <<" minutes.">>

\* vector_embedding.py: the loop appending to feature_texts
build_feature_texts(graph_data) ==
  [i \in 1..Len(graph_data) |-> text_representation(graph_data[i])]

\* embedding_comparison.py: the if/elif/else on score
serialize_food_desc(score) ==
  IF score >= 8 THEN "delicious and excellent"
  ELSE IF score <= 3 THEN "terrible and poor"
  ELSE "average"

\* embedding_comparison.py: the if/elif/else on delay
delay_desc(delay) ==
  IF delay > 30 THEN <<"significantly delayed by ">> \o format_int(delay) \o <<" minutes">>
  ELSE IF delay > 0 THEN <<"slightly delayed by ">> \o format_int(delay) \o <<" minutes">>
  ELSE <<"on time">>

\* embedding_comparison.py: text
serialize_text(r) ==
  <<"Passenger ", r.passenger_id, " (", r.gen, ", ", r.loyalty, " status) ",
    "booked ", r.p_class, " class on Flight ", r.flight_num, " ",
    "(operated by ", r.fleet, "). ",
    "The journey from ", r.origin_code, " to ", r.dest_code, " ",
    "covered ", r.miles, " miles. ",
    "Feedback: The food was ", serialize_food_desc(r.food_score), " (rated ">>
    \o format_int(r.food_score) \o
  <<"/10). ", "The flight was ">>
    \o delay_desc(r.delay) \o
  <<".">>

\* embedding_comparison.py: serialize_data
serialize_data(data) ==
  [i \in 1..Len(data) |-> serialize_text(data[i])]

InitSerialize ==
  /\ \E r \in JourneyRecords : state = [graph_data |-> <<r>>]
  /\ entities_in = Absent
  /\ ret = <<>>
  /\ wf = "serialize"
  /\ tasks = [n \in Nodes |-> "idle"]
  /\ writes = NoWrites
  /\ runs = [n \in Nodes |-> 0]
  /\ finished = {}
  /\ db = NoDb
  /\ ext = NoCalls(FALSE)
  /\ prompt = Absent

SerializedBy == {ret[k].by : k \in 1..Len(ret)}

\* vector_embedding.py run as a script: if graph_data, build feature_texts
BuildIndexTexts ==
  /\ wf = "serialize"
  /\ "vector_embedding" \notin SerializedBy
  /\ state.graph_data # <<>>
  /\ ret' = Append(ret, [by |-> "vector_embedding",
                         texts |-> build_feature_texts(state.graph_data)])
  /\ UNCHANGED <<state, entities_in, wf, tasks, writes, runs, finished, db, ext, prompt>>

\* embedding_comparison.py run as a script: texts = serialize_data(data)
SerializeData ==
  /\ wf = "serialize"
  /\ "embedding_comparison" \notin SerializedBy
  /\ ret' = Append(ret, [by |-> "embedding_comparison",
                         texts |-> serialize_data(state.graph_data)])
  /\ UNCHANGED <<state, entities_in, wf, tasks, writes, runs, finished, db, ext, prompt>>

NextSerialize == BuildIndexTexts \/ SerializeData

SpecSerialize == InitSerialize /\ [][NextSerialize]_vars

----------------------------------------------------------------------------
(* The interactive loop of agent.py: after a request has ended or raised   *)
(* (the exception is caught and printed) the next "Run Query" calls        *)
(* app.invoke with a new inputs mapping.  ret keeps how the earlier        *)
(* requests ended.                                                         *)

MaxRequests == 2    \* requests run one after the other in one session

\* app.invoke resuming the channels of the previous request
NewRequest_KeepChannels ==
  /\ wf \in {"end", "raised"}
  /\ Len(ret) + 1 < MaxRequests
  /\ ret' = Append(ret, [outcome |-> wf])
  /\ \E q \in QuestionIds, m \in Modes :
       state' = [k \in Keys |-> IF Inputs(q, m)[k] # Absent THEN Inputs(q, m)[k]
                                ELSE state[k]]
  /\ entities_in' = Absent
  /\ wf' = "running"
  /\ tasks' = [n \in Nodes |-> IF n \in EntryNodes THEN "scheduled" ELSE "idle"]
  /\ writes' = NoWrites
  /\ runs' = [n \in Nodes |-> 0]
  /\ finished' = {}
  /\ db' = NoDb
  /\ ext' = NoCalls(ext.loaded)
  /\ prompt' = Absent

\* choice '3': inputs = {...}; app.invoke(inputs).  The graph is compiled
\* without a checkpointer, so the channels start from the inputs alone;
\* the artifacts rag_tool loaded at import stay as they are.
NewRequest ==
  /\ wf \in {"end", "raised"}
  /\ Len(ret) + 1 < MaxRequests
  /\ ret' = Append(ret, [outcome |-> wf])
  /\ \E q \in QuestionIds, m \in Modes : state' = Inputs(q, m)
  /\ entities_in' = Absent
  /\ wf' = "running"
  /\ tasks' = [n \in Nodes |-> IF n \in EntryNodes THEN "scheduled" ELSE "idle"]
  /\ writes' = NoWrites
  /\ runs' = [n \in Nodes |-> 0]
  /\ finished' = {}
  /\ db' = NoDb
  /\ ext' = NoCalls(ext.loaded)
  /\ prompt' = Absent

NextSession == Next \/ NewRequest

SpecSession == Init /\ [][NextSession]_vars

----------------------------------------------------------------------------
(* app.invoke called with any inputs: retrieval_mode and selected_model    *)
(* are plain strings at run time (the TypedDict declaration is not         *)
(* enforced), so a caller can pass a mode outside the three declared ones  *)
(* and a selector get_llm does not know.                                   *)

AnyModes == Modes \cup {"fusion"}

Selectors == {"Gemini Flash", "GPT-4"}

InitInvoke ==
  /\ \E q \in QuestionIds, m \in AnyModes, sel \in Selectors :
       state = [Inputs(q, m) EXCEPT !["selected_model"] = Str(sel)]
  /\ entities_in = Absent
  /\ ret = <<>>
  /\ wf = "running"
  /\ tasks = [n \in Nodes |-> IF n \in EntryNodes THEN "scheduled" ELSE "idle"]
  /\ writes = NoWrites
  /\ runs = [n \in Nodes |-> 0]
  /\ finished = {}
  /\ db = NoDb
  /\ \E l \in BOOLEAN : ext = NoCalls(l)
  /\ prompt = Absent

SpecInvoke == InitInvoke /\ [][Next]_vars

FairInvoke == SpecInvoke /\ WF_vars(Next)

----------------------------------------------------------------------------
(* Properties *)

Mode == state["retrieval_mode"].s

\* a request is being (or was) run through the workflow
InWorkflow == wf \in {"running", "end", "raised"}

GraphActive == InWorkflow /\ Mode \in {"baseline", "hybrid"}

\* a field is present when the mapping holds a value other than None for it
Present(e, f) == Get(e, f) # None

\* the precedence lists as the specification's table gives them
PrecedenceList(intent) ==
  CASE intent = "flight_search" ->
         << [needs |-> {"origin", "destination"}, id |-> "Q1"],
            [needs |-> {"destination"},           id |-> "Q2"],
            [needs |-> {"flight_number"},         id |-> "Q3"] >>
    [] intent = "analyze_delays" ->
         << [needs |-> {"origin", "destination"}, id |-> "Q4"],
            [needs |-> {"origin"},                id |-> "Q5"],
            [needs |-> {"fleet_desc"},            id |-> "Q6"] >>
    [] intent = "satisfaction_analysis" ->
         << [needs |-> {"p_class"},               id |-> "Q7"],
            [needs |-> {},                        id |-> "Q8"] >>
    [] intent = "passenger_profiling" ->
         << [needs |-> {"level"},                 id |-> "Q9"],
            [needs |-> {"record_locator"},        id |-> "Q10"] >>
    [] OTHER -> << >>

FirstSatisfied(intent, e) ==
  LET rows == PrecedenceList(intent)
      sat  == {i \in 1..Len(rows) : \A f \in rows[i].needs : Present(e, f)}
  IN  IF sat = {} THEN None ELSE Query(rows[Min(sat)].id)

TemplateOf(q) == CHOOSE i \in 1..Len(Templates) : Query(Templates[i].id) = q

\* C1: for each of the four intents and every presence/absence combination
\* of the entity fields, the router returns the template of the first row of
\* the intent's precedence list whose required fields are all present, and
\* no template when no row is satisfied.
C1_FirstSatisfiedRowWins ==
  \A k \in 1..Len(ret) :
    state["intent"].s \in Intents =>
      ret[k].query = FirstSatisfied(state["intent"].s, ret[k].given.d)

\* C2: in hybrid mode the synthesizer is not started before both
\* cypher_exec and rag_search have returned, whatever the interleaving of
\* the two branches.
C2_JoinBarrier ==
  (InWorkflow /\ Mode = "hybrid" /\ runs["synthesizer"] > 0)
    => {"cypher_exec", "rag_search"} \subseteq finished

C2_Witness ==
  /\ wf = "running" /\ Mode = "hybrid"
  /\ tasks["synthesizer"] = "running"
  /\ {"cypher_exec", "rag_search"} \subseteq finished

\* C3: with a routed template, a failed graph query makes cypher_exec_node
\* return an empty structured result: the node does not raise, the workflow
\* is not interrupted.
C3_GraphFailureYieldsEmpty ==
  db.outcome = "failed" =>
    /\ wf # "raised"
    /\ "cypher_exec" \in finished
    /\ \/ writes["cypher_exec"] = [cypher_results |-> List(<<>>)]
       \/ state["cypher_results"] = List(<<>>)

\* C4: for flight_search with origin, destination and flight_number all
\* present the router selects the origin+destination template (limit 10),
\* not the destination-only or the flight-number template.
C4_RouteBeatsFlightNumber ==
  \A k \in 1..Len(ret) :
    ( /\ state["intent"].s = "flight_search"
      /\ \A f \in {"origin", "destination", "flight_number"} : Present(ret[k].given.d, f) )
    => /\ ret[k].query = Query("Q1")
       /\ Templates[TemplateOf(ret[k].query)].limit = 10
       /\ Templates[TemplateOf(ret[k].query)].needs = {"origin", "destination"}

C4_Witness ==
  /\ Len(ret) >= 1
  /\ state["intent"].s = "flight_search"
  /\ \A f \in {"origin", "destination", "flight_number"} : Present(ret[1].given.d, f)
  /\ ret[1].query = Query("Q1")

\* C5: in baseline mode neither prompt_eng nor rag_search is ever started,
\* and the unstructured section of the synthesis prompt is the Skipped
\* marker.
C5_BaselineSkipsVector ==
  (InWorkflow /\ Mode = "baseline") =>
    /\ runs["prompt_eng"] = 0
    /\ runs["rag_search"] = 0
    /\ state["optimized_query"] = Absent
    /\ state["vector_docs"] = Absent
    /\ prompt # Absent => prompt.unstructured = SkippedUnstructured

C5_Witness ==
  /\ wf = "end" /\ Mode = "baseline"
  /\ prompt # Absent
  /\ prompt.unstructured = SkippedUnstructured

\* C6: in embeddings mode neither cypher_gen nor cypher_exec is ever
\* started, no graph store connection is opened and no query is run, and the
\* structured section of the synthesis prompt is the Skipped marker.
C6_EmbeddingsSkipsGraph ==
  (InWorkflow /\ Mode = "embeddings") =>
    /\ runs["cypher_gen"] = 0
    /\ runs["cypher_exec"] = 0
    /\ db = NoDb
    /\ state["cypher_sql"] = Absent
    /\ state["cypher_results"] = Absent
    /\ prompt # Absent => prompt.structured = SkippedStructured

C6_Witness ==
  /\ wf = "end" /\ Mode = "embeddings"
  /\ prompt # Absent
  /\ prompt.structured = SkippedStructured

\* C7: with the graph branch active and no template matched, what the
\* synthesizer sees differs from what it sees for a routed query that
\* returned zero rows: another structured result and another prompt framing.
C7_SkipDistinctFromEmpty ==
  (GraphActive /\ prompt # Absent /\ state["cypher_sql"] = None) =>
    /\ state["cypher_results"] # Rows(0)
    /\ prompt.structured # structured_data([state EXCEPT !["cypher_results"] = Rows(0)])

\* C8: when the router returned no template, cypher_exec_node opens no
\* graph store connection and never calls the store's query operation.
C8_NoTemplateNoConnection ==
  (InWorkflow /\ state["cypher_sql"] = None) =>
    /\ db.connects = 0
    /\ db.query_calls = 0
    /\ db.conn = "none"

C8_Witness ==
  /\ InWorkflow
  /\ state["cypher_sql"] = None
  /\ "cypher_exec" \in finished
  /\ db = NoDb

\* C9: generate_cypher_query leaves the caller's entities mapping as it
\* was: after the call every field, the flight_number and its type
\* included, holds the value it held before.
C9_EntitiesUntouched ==
  Len(ret) >= 1 => state["entities"] = entities_in

\* C10: two calls of generate_cypher_query with the same intent on the same
\* entities mapping (the second on the mapping the first call was given)
\* return the same template and the same bound parameter values.
C10_Idempotent ==
  \A j, k \in 1..Len(ret) :
    /\ ret[j].query = ret[k].query
    /\ ret[j].params = ret[k].params

C10_Witness ==
  /\ Len(ret) >= 2
  /\ ret[1].query # None
  /\ ret[1].given # ret[2].given
  /\ ret[1].params = ret[2].params

RECURSIVE DecimalValue(_, _)
\* the number a string of decimal digits denotes, read from the left
DecimalValue(c, acc) ==
  IF c = <<>> THEN acc
  ELSE DecimalValue(Tail(c), 10 * acc + (IF Head(c) = "1" THEN 1 ELSE 0))

\* C11: for satisfaction_analysis the router never returns the none
\* sentinel: the by-class template when p_class is present, the default
\* worst-flights template otherwise, also with no entity populated.
C11_SatisfactionNeverNone ==
  \A k \in 1..Len(ret) :
    state["intent"].s = "satisfaction_analysis" =>
      ret[k].query = IF Present(ret[k].given.d, "p_class") THEN Query("Q7") ELSE Query("Q8")

C11_Witness ==
  /\ wf = "router" /\ Len(ret) >= 1
  /\ state["intent"].s = "satisfaction_analysis"
  /\ \A f \in EntityFields : ~Present(ret[1].given.d, f)
  /\ ret[1].query = Query("Q8")

\* C12: the bound flight_number is the integer a digit-only string denotes,
\* the same string when it holds a non-digit, every other field is bound as
\* given, the bound flight_number is never a digit-only string, and the
\* chosen template's predicate holds of the corrected values.
C12_FlightNumberNormalized ==
  \A k \in 1..Len(ret) :
    ret[k].params # None =>
      LET g == ret[k].given.d
          b == ret[k].params.d
      IN  /\ isdigit(g["flight_number"]) =>
               b["flight_number"] = PyInt(DecimalValue(g["flight_number"].c, 0))
          /\ (g["flight_number"].t = "chars" /\ ~isdigit(g["flight_number"])) =>
               b["flight_number"] = g["flight_number"]
          /\ \A f \in PlainFields : b[f] = g[f]
          /\ ~isdigit(b["flight_number"])
          /\ \A f \in Templates[TemplateOf(ret[k].query)].needs : Truthy(b[f])

C12_Witness ==
  /\ wf = "router" /\ Len(ret) >= 1
  /\ ret[1].given.d["flight_number"] = Chars(<<"1", "0">>)
  /\ ret[1].query = Query("Q3")
  /\ ret[1].params.d["flight_number"] = PyInt(10)

\* what cypher_gen_node returned, before or after the superstep applied it
GenReturned(q, b) ==
  \/ tasks["cypher_gen"] = "done" /\ writes["cypher_gen"] = [cypher_sql |-> q, cypher_params |-> b]
  \/ state["cypher_sql"] = q /\ state["cypher_params"] = b

\* C13: when no predicate of the intent's list is satisfied (or the intent is
\* outside the four) generate_cypher_query returns None for query and
\* parameters, and cypher_gen_node returns both as they are, without raising.
C13_NoneSentinel ==
  /\ wf = "router" =>
       \A k \in 1..Len(ret) :
         FirstSatisfied(state["intent"].s, ret[k].given.d) = None =>
           ret[k].query = None /\ ret[k].params = None
  /\ (InWorkflow /\ "cypher_gen" \in finished
        /\ FirstSatisfied(state["intent"].s, entities_in.d) = None) =>
       /\ tasks["cypher_gen"] # "raised"
       /\ GenReturned(None, None)

C13_Witness ==
  /\ InWorkflow /\ "cypher_exec" \in finished
  /\ FirstSatisfied(state["intent"].s, entities_in.d) = None
  /\ state["cypher_sql"] = None /\ state["cypher_params"] = None

\* the answer the synthesizer returned, before or after it was applied
FinalAnswer ==
  IF tasks["synthesizer"] = "done" THEN writes["synthesizer"]["final_answer"]
  ELSE state["final_answer"]

IsSynthesisError(a) ==
  /\ a.t = "str" /\ a.s = "Error during synthesis: "
  /\ "e" \in DOMAIN a /\ a.e \in {"get_llm", "invoke", "Unknown model"}

AnswerFailed == InWorkflow /\ "answer" \in ext.failures

\* C14: when get_llm or llm.invoke raises in the synthesizer, the node
\* returns the error message with the failure description, the workflow
\* reaches END with it as final_answer, and llm.invoke is called at most
\* once in the request.
C14_SynthesisFailureIsTerminal ==
  /\ [](InWorkflow => ext.invokes <= 1)
  /\ [](AnswerFailed => (wf # "raised" /\ IsSynthesisError(FinalAnswer)))
  /\ (AnswerFailed ~> (wf = "end" /\ IsSynthesisError(state["final_answer"])))

C14_Witness ==
  /\ AnswerFailed /\ wf = "end"
  /\ state["final_answer"] = SynthesisError("invoke")
  /\ ext.invokes = 1

\* C15: with the index or the embedding model not loaded,
\* search_knowledge_base returns exactly one snippet, the placeholder, for
\* every query and every k, and neither embeds nor searches.
C15_PlaceholderWhenNotLoaded ==
  (wf = "search" /\ ~ext.loaded /\ ret # <<>>) =>
    /\ ret[1].docs = List(<<NotLoaded>>)
    /\ Len(ret[1].docs.l) = 1
    /\ ext.encodes = 0
    /\ ext.searches = 0

C15_Witness ==
  /\ wf = "search" /\ ~ext.loaded /\ ret # <<>>
  /\ ext.k = 1
  /\ ret[1].docs = List(<<NotLoaded>>)

NoTemplateHybrid ==
  InWorkflow /\ Mode = "hybrid" /\ state["cypher_sql"] = None

VectorSection(docs) ==
  IF docs.l # <<>> THEN join(docs) ELSE NoUnstructured

CompletedWithSnippets ==
  /\ wf = "end"
  /\ "rag_search" \in finished /\ "synthesizer" \in finished
  /\ state["vector_docs"] # Absent
  /\ prompt # Absent
  /\ prompt.unstructured = VectorSection(state["vector_docs"])
  /\ state["final_answer"] # Absent

\* C16: in hybrid mode with no template matched the request completes:
\* the vector branch runs to its end, the synthesizer runs with the
\* snippets in the unstructured section, and a final answer is produced.
C16_NoTemplateStillCompletes == NoTemplateHybrid ~> CompletedWithSnippets

C16_Witness == NoTemplateHybrid /\ CompletedWithSnippets

NluFailed == InWorkflow /\ ext.failures \cap {"classify", "extract"} # {}

\* C17: a failure of intent classification or entity extraction leaves the
\* workflow as a raised request: no routing, retrieval or synthesis stage
\* is started afterwards and no final answer is written.
C17_NluFailurePropagates ==
  NluFailed =>
    /\ wf = "raised"
    /\ \A n \in Nodes \ {"classifier", "extractor"} : runs[n] = 0
    /\ "classify" \in ext.failures => runs["extractor"] = 0
    /\ state["final_answer"] = Absent
    /\ prompt = Absent
    /\ db = NoDb

C17_Witness ==
  /\ NluFailed /\ "extract" \in ext.failures
  /\ wf = "raised"
  /\ "classifier" \in finished

\* C18: in every mode, whatever fails after entity extraction (no template,
\* graph query failure, knowledge base not loaded, query-rewrite failure,
\* answer-generation failure), the request ends at END with final_answer set.
C18_AlwaysTextualResult ==
  (InWorkflow /\ "extractor" \in finished) =>
    /\ wf # "raised"
    /\ wf = "end" => state["final_answer"] # Absent

\* C19: in every mode the classifier has returned before the extractor is
\* started, and the extractor has returned before any of cypher_gen,
\* cypher_exec, prompt_eng, rag_search is started.
C19_NluBeforeBranches ==
  InWorkflow =>
    /\ runs["extractor"] > 0 => "classifier" \in finished
    /\ \A n \in {"cypher_gen", "cypher_exec", "prompt_eng", "rag_search"} :
         runs[n] > 0 => {"classifier", "extractor"} \subseteq finished

C19_Witness ==
  /\ InWorkflow /\ Mode = "hybrid"
  /\ tasks["cypher_gen"] = "running" /\ tasks["prompt_eng"] = "running"
  /\ "extractor" \in finished

\* C20: the synthesizer renders a source the mode did not activate as the
\* Skipped marker, an activated source with a non-empty result as that
\* result (the rows stringified, the snippets joined in order), and an
\* activated source with an empty result as the no-data marker.
C20_PromptFraming ==
  (InWorkflow /\ prompt # Absent) =>
    /\ prompt.structured =
         IF Mode = "embeddings" THEN SkippedStructured
         ELSE IF state["cypher_results"].l # <<>>
              THEN [t |-> "repr", of |-> state["cypher_results"]]
              ELSE NoStructured
    /\ prompt.unstructured =
         IF Mode = "baseline" THEN SkippedUnstructured
         ELSE VectorSection(state["vector_docs"])

C20_Witness ==
  /\ InWorkflow /\ Mode = "baseline" /\ prompt # Absent
  /\ state["cypher_results"] = Rows(2)
  /\ prompt.structured = [t |-> "repr", of |-> Rows(2)]
  /\ prompt.unstructured = SkippedUnstructured

\* C21: the connection cypher_exec_node opens is open only while the node
\* is running and is closed on every path out of it (rows, no rows, failed
\* query, the node raising): it is not open once the query was made, when
\* the synthesizer is started, or when the request has ended or raised.
C21_ConnectionClosed ==
  InWorkflow =>
    /\ db.connects <= 1
    /\ db.conn = "open" => tasks["cypher_exec"] = "running"
    /\ db.query_calls > 0 => db.conn # "open"
    /\ runs["synthesizer"] > 0 => db.conn # "open"
    /\ wf \in {"end", "raised"} => db.conn # "open"

C21_Witness ==
  /\ wf = "raised" /\ tasks["cypher_exec"] = "raised"
  /\ db.connects = 1 /\ db.outcome = "failed"
  /\ db.conn = "closed"

\* the rows the graph capability answered with (none asked for: no rows)
AnsweredRows == IF db.data = Absent THEN List(<<>>) ELSE db.data

\* the snippets that follow from what the index answered with
AnsweredDocs == search_knowledge_base(ext.loaded, K, ext.hits.l)

\* C22: in hybrid mode the synthesizer's input is determined by the
\* capability responses alone: in every interleaving of the two branches
\* cypher_results is what the graph query answered, vector_docs is what
\* the search answered, and the prompt sections are built from these two.
C22_OrderIndependent ==
  (InWorkflow /\ Mode = "hybrid" /\ prompt # Absent) =>
    /\ state["cypher_results"] = AnsweredRows
    /\ state["vector_docs"] = AnsweredDocs
    /\ prompt.structured =
         IF AnsweredRows.l # <<>> THEN [t |-> "repr", of |-> AnsweredRows]
         ELSE NoStructured
    /\ prompt.unstructured = VectorSection(AnsweredDocs)

C22_Witness ==
  /\ wf = "end" /\ Mode = "hybrid" /\ prompt # Absent
  /\ db.data = Rows(2) /\ ext.hits = List(<<1, 0, -1>>)
  /\ state["cypher_results"] = Rows(2)
  /\ state["vector_docs"] = List(<<Snippet(2), Snippet(1), Snippet(2)>>)

StagesOf(mode) ==
  {"classifier", "extractor", "synthesizer"}
    \cup (IF mode # "embeddings" THEN {"cypher_gen", "cypher_exec"} ELSE {})
    \cup (IF mode # "baseline" THEN {"prompt_eng", "rag_search"} ELSE {})

TotalRuns ==
  runs["classifier"] + runs["extractor"] + runs["cypher_gen"]
    + runs["cypher_exec"] + runs["prompt_eng"] + runs["rag_search"]
    + runs["synthesizer"]

EndedAsPlanned ==
  /\ wf = "end"
  /\ \A n \in Nodes : runs[n] = IF n \in StagesOf(Mode) THEN 1 ELSE 0
  /\ finished = StagesOf(Mode)
  /\ TotalRuns = IF Mode = "hybrid" THEN 7 ELSE 5

\* C23: no stage is started twice, and every request ends: it raises, or
\* it reaches END after exactly the stages of its mode have run once each,
\* five in baseline and embeddings mode and seven in hybrid mode.
C23_Terminates ==
  /\ [](InWorkflow => \A n \in Nodes : runs[n] <= 1)
  /\ []((InWorkflow /\ wf = "end") => EndedAsPlanned)
  /\ (InWorkflow ~> (wf = "raised" \/ EndedAsPlanned))

C23_Witness ==
  /\ EndedAsPlanned /\ Mode = "hybrid"
  /\ TotalRuns = 7 /\ runs["synthesizer"] = 1

\* the templates of the intent's own precedence list
OwnTemplates(intent) ==
  {Query(PrecedenceList(intent)[i].id) : i \in 1..Len(PrecedenceList(intent))}

ProfilingWithRouteOnly(k) ==
  /\ state["intent"].s = "passenger_profiling"
  /\ Present(ret[k].given.d, "origin") /\ Present(ret[k].given.d, "destination")
  /\ ~Present(ret[k].given.d, "level")
  /\ ~Present(ret[k].given.d, "record_locator")

\* C24: the template the router returns is one of the classified intent's
\* own list whatever fields are present; passenger_profiling with origin
\* and destination present and neither level nor record_locator gets none.
C24_NoFallthrough ==
  wf = "router" =>
    \A k \in 1..Len(ret) :
      /\ ret[k].query # None => ret[k].query \in OwnTemplates(state["intent"].s)
      /\ ProfilingWithRouteOnly(k) => ret[k].query = None

C24_Witness ==
  /\ wf = "router" /\ Len(ret) >= 1
  /\ ProfilingWithRouteOnly(1)
  /\ ret[1].query = None

ZeroFlightOnly(k) ==
  /\ state["intent"].s = "flight_search"
  /\ ret[k].given.d["flight_number"] = Chars(<<"0">>)
  /\ ~Present(ret[k].given.d, "origin")
  /\ ~Present(ret[k].given.d, "destination")

\* C25: for flight_search with flight_number extracted as "0" and origin
\* and destination absent the router returns the single-flight template
\* with flight_number bound to the integer 0.
C25_ZeroIsPresent ==
  wf = "router" =>
    \A k \in 1..Len(ret) :
      ZeroFlightOnly(k) =>
        /\ ret[k].query = Query("Q3")
        /\ ret[k].params # None
        /\ ret[k].params.d["flight_number"] = PyInt(0)

\* C26: every placeholder of the template the router returns is a key of
\* the returned parameter mapping, under that name, with a value that is
\* neither missing nor None.
C26_PlaceholdersBound ==
  wf = "router" =>
    \A k \in 1..Len(ret) :
      ret[k].query # None =>
        /\ ret[k].params # None
        /\ \A p \in Templates[TemplateOf(ret[k].query)].placeholders :
             /\ p \in DOMAIN ret[k].params.d
             /\ ret[k].params.d[p] \notin {None, Absent}

C26_Witness ==
  /\ wf = "router" /\ Len(ret) >= 1
  /\ ret[1].query = Query("Q7")
  /\ ret[1].params.d["p_class"] = Str("Business")

RewriteFailed == InWorkflow /\ "rewrite" \in ext.failures

\* the text prompt_eng_node handed on as optimized_query
HandedOn ==
  IF "optimized_query" \in DOMAIN writes["prompt_eng"]
  THEN writes["prompt_eng"]["optimized_query"]
  ELSE state["optimized_query"]

SynthesisAfterSearch ==
  /\ "rag_search" \in finished
  /\ ext.searched = state["user_query"]
  /\ runs["synthesizer"] > 0
  /\ prompt # Absent

\* C27: when the query rewrite fails, prompt_eng_node still returns, with
\* the user's text as optimized_query; search_knowledge_base is then
\* called with that text and the synthesizer runs (unless the graph branch
\* of a hybrid request raises in the meantime).
C27_RewriteFailureFallsBack ==
  /\ [](RewriteFailed =>
          /\ tasks["prompt_eng"] # "raised"
          /\ "prompt_eng" \in finished
          /\ HandedOn = state["user_query"]
          /\ ext.searched \in {Absent, state["user_query"]})
  /\ (RewriteFailed ~> (SynthesisAfterSearch \/ tasks["cypher_exec"] = "raised"))

C27_Witness ==
  /\ RewriteFailed /\ Mode = "embeddings"
  /\ wf = "end"
  /\ SynthesisAfterSearch
  /\ state["optimized_query"] = state["user_query"]

\* the corpus entries at the positions the index ranked, in ranking order
RankedEntries(hits) ==
  LET valid == SelectSeq(hits, LAMBDA h : h >= 0 /\ h < Len(feature_texts))
  IN  [i \in 1..Len(valid) |-> feature_texts[valid[i] + 1]]

\* C28: with the knowledge base loaded, search_knowledge_base(query, k)
\* returns at most k snippets, each an entry of feature_texts, and they
\* are the entries at the positions the index returned, in that order.
C28_RankedCorpusEntries ==
  (wf = "search" /\ ext.loaded /\ ret # <<>>) =>
    /\ Len(ret[1].docs.l) <= ext.k
    /\ \A i \in 1..Len(ret[1].docs.l) :
         \E j \in 1..Len(feature_texts) : ret[1].docs.l[i] = feature_texts[j]
    /\ ret[1].docs.l = RankedEntries(ret[1].hits)

\* C29: in hybrid mode with the knowledge base not loaded, vector_docs is
\* the one-element list holding the placeholder and the unstructured
\* section of the prompt is the placeholder text, not the Skipped marker
\* and not the no-data marker.
C29_PlaceholderIsContent ==
  (InWorkflow /\ Mode = "hybrid" /\ ~ext.loaded /\ prompt # Absent) =>
    /\ state["vector_docs"] = List(<<NotLoaded>>)
    /\ prompt.unstructured = NotLoaded
    /\ prompt.unstructured \notin {SkippedUnstructured, NoUnstructured}

C29_Witness ==
  /\ wf = "end" /\ Mode = "hybrid" /\ ~ext.loaded
  /\ prompt # Absent
  /\ prompt.unstructured = NotLoaded
  /\ state["final_answer"] = Str("answer")

FoodDescriptions == {"delicious and excellent", "terrible and poor", "average"}

\* the position of a piece in a text (0 when it does not occur)
PieceAt(text, piece) ==
  IF \E i \in 1..Len(text) : text[i] = piece
  THEN CHOOSE i \in 1..Len(text) : text[i] = piece
  ELSE 0

\* the food description of a text: the piece after the feedback opener
FoodOf(text) == text[PieceAt(text, "Feedback: The food was ") + 1]

DigitValueOf(ch) == CHOOSE d \in 0..9 : DecimalDigits[d + 1] = ch

RECURSIVE ReadNat(_, _)
ReadNat(c, acc) ==
  IF c = <<>> THEN acc ELSE ReadNat(Tail(c), 10 * acc + DigitValueOf(Head(c)))

\* the integer a sequence of characters denotes
ReadInt(c) == IF Head(c) = "-" THEN 0 - ReadNat(Tail(c), 0) ELSE ReadNat(c, 0)

\* the characters between " (rated " and "/10). "
RatedOf(text) ==
  SubSeq(text, PieceAt(text, " (rated ") + 1, PieceAt(text, "/10). ") - 1)

SerializedScore == state.graph_data[1].food_score

\* C30: in the texts of both serializers the food description is
\* "delicious and excellent" exactly for a score of 8 or more, "terrible
\* and poor" exactly for a score of 3 or less and "average" otherwise, it
\* is followed by " (rated <score>/10). " with the score in decimal, and
\* the two serializers give the same description.
C30_FoodDescription ==
  wf = "serialize" =>
    /\ \A k \in 1..Len(ret) :
         LET text == ret[k].texts[1]
         IN  /\ PieceAt(text, "Feedback: The food was ") > 0
             /\ FoodOf(text) \in FoodDescriptions
             /\ FoodOf(text) = "delicious and excellent" <=> SerializedScore >= 8
             /\ FoodOf(text) = "terrible and poor" <=> SerializedScore <= 3
             /\ FoodOf(text) = "average" <=> (SerializedScore > 3 /\ SerializedScore < 8)
             /\ PieceAt(text, " (rated ") = PieceAt(text, "Feedback: The food was ") + 2
             /\ PieceAt(text, "/10). ") > PieceAt(text, " (rated ") + 1
             /\ ReadInt(RatedOf(text)) = SerializedScore
    /\ \A j, k \in 1..Len(ret) : FoodOf(ret[j].texts[1]) = FoodOf(ret[k].texts[1])

C30_Witness ==
  /\ wf = "serialize" /\ Len(ret) = 2
  /\ SerializedScore = 8
  /\ FoodOf(ret[1].texts[1]) = "delicious and excellent"
  /\ FoodOf(ret[2].texts[1]) = "delicious and excellent"
  /\ RatedOf(ret[1].texts[1]) = <<"8">>

SerializedDelay == state.graph_data[1].delay

\* the delay phrase the specification gives for a delay (none for a
\* negative delay)
DelayPhrase(delay) ==
  IF delay > 30 THEN <<"significantly delayed by ">> \o format_int(delay) \o <<" minutes">>
  ELSE IF delay > 0 THEN <<"slightly delayed by ">> \o format_int(delay) \o <<" minutes">>
  ELSE IF delay = 0 THEN <<"on time">>
  ELSE <<>>

\* text ends with the pieces of tail
EndsWith(text, tail) ==
  /\ Len(text) >= Len(tail)
  /\ SubSeq(text, Len(text) - Len(tail) + 1, Len(text)) = tail

\* C31: the texts of both serializers end with the delay phrase of the
\* journey's delay: "on time" exactly for delay 0, "slightly delayed by N
\* minutes" exactly for 0 < delay <= 30, "significantly delayed by N
\* minutes" exactly for delay > 30.
C31_DelayPhrase ==
  wf = "serialize" =>
    \A k \in 1..Len(ret) :
      LET text == ret[k].texts[1]
      IN  /\ SerializedDelay >= 0 =>
               EndsWith(text, <<"The flight was ">> \o DelayPhrase(SerializedDelay) \o <<".">>)
          /\ EndsWith(text, <<"The flight was ", "on time", ".">>) => SerializedDelay = 0

\* the entity mappings of a question shape: the fields the question names,
\* and for the flight question a flight number other than zero
CanonicalEntities(id) ==
  LET q == Question(id)
  IN  IF q.flight
      THEN {Entities(q.names, Chars(c)) :
              c \in {d \in FlightStrings : isdigit(Chars(d)) /\ ParseInt(d) # 0}}
      ELSE {Entities(q.names, None)}

CanonicalCall(id, k) ==
  /\ state["intent"].s = expected_intent(id)
  /\ ret[k].given.d \in CanonicalEntities(id)

\* C32: for each of the ten question shapes of the router test, with the
\* expected intent and the entity fields the question names, the router
\* returns a query, the template of that shape; so each of the ten
\* templates is selected for some input.
C32_CanonicalShapesRouted ==
  wf = "router" =>
    /\ \A k \in 1..Len(ret) : \A id \in QuestionIds :
         CanonicalCall(id, k) =>
           /\ Truthy(ret[k].query)
           /\ ret[k].query = Query(id)
    /\ \A id \in QuestionIds :
         \E e \in CanonicalEntities(id) :
           generate_cypher_query(expected_intent(id), e).query = Query(id)

C32_Witness ==
  /\ wf = "router" /\ Len(ret) >= 1
  /\ CanonicalCall("Q1", 1)
  /\ ret[1].query = Query("Q1")

InputFields == {"user_query", "retrieval_mode", "selected_model"}

\* the fields of the update each stage returns
OutputFields(n) ==
  CASE n = "classifier"  -> {"intent"}
    [] n = "extractor"   -> {"entities"}
    [] n = "cypher_gen"  -> {"cypher_sql", "cypher_params"}
    [] n = "cypher_exec" -> {"cypher_results"}
    [] n = "prompt_eng"  -> {"optimized_query"}
    [] n = "rag_search"  -> {"vector_docs"}
    [] OTHER             -> {"final_answer"}

Set(k) == state[k] # Absent

\* the request state as a request run alone has it: inputs, and the
\* outputs of the stages this request has run, computed from this
\* request's inputs and capability responses
RequestLocal ==
  /\ \A k \in Keys :
       Set(k) => (k \in InputFields \/ \E n \in finished : k \in OutputFields(n))
  /\ Set("entities") =>
       state["entities"].d \in {entities_in.d, NormalizeFlightNumber(entities_in.d)}
  /\ Set("cypher_sql") =>
       /\ state["cypher_sql"] =
            generate_cypher_query(state["intent"].s, entities_in.d).query
       /\ state["cypher_params"] =
            generate_cypher_query(state["intent"].s, entities_in.d).params
  /\ Set("cypher_results") => state["cypher_results"] = AnsweredRows
  /\ Set("optimized_query") =>
       state["optimized_query"] \in {Str("optimized"), state["user_query"]}
  /\ Set("vector_docs") => state["vector_docs"] = AnsweredDocs
  /\ prompt # Absent =>
       /\ prompt.structured =
            IF Mode = "embeddings" THEN SkippedStructured
            ELSE IF AnsweredRows.l # <<>> THEN [t |-> "repr", of |-> AnsweredRows]
                 ELSE NoStructured
       /\ prompt.unstructured =
            IF Mode = "baseline" THEN SkippedUnstructured
            ELSE VectorSection(AnsweredDocs)
  /\ Set("final_answer") => state["final_answer"] \in Answers

\* C33: a request run after another one has, at every step, the state a
\* request run alone has with the same inputs and capability responses:
\* no field is set that this request's own stages did not write, and
\* every value follows from this request's inputs and responses.
C33_RequestScoped == InWorkflow => RequestLocal

C33_Witness ==
  /\ wf = "end" /\ Len(ret) = 1 /\ ret[1].outcome = "end"
  /\ Mode = "baseline"
  /\ ~Set("vector_docs") /\ ~Set("optimized_query")
  /\ Set("final_answer")

\* C34: Neo4jConnection.query returns None exactly when there is no
\* driver or session.run raised, and otherwise the list of the rows the
\* query produced, which for zero rows is the empty list and not None.
C34_QueryNeverRaises ==
  (InWorkflow /\ db.query_calls > 0) =>
    /\ db.data = None <=> (db.conn = "nodriver" \/ db.run = Raises)
    /\ db.data # None =>
         /\ db.data.t = "list"
         /\ db.data = db.run
    /\ db.run = Rows(0) => (db.data = List(<<>>) /\ db.data # None)

C34_Witness ==
  /\ InWorkflow /\ db.query_calls = 1
  /\ db.conn = "closed" /\ db.run = Raises
  /\ db.data = None

OtherMode == InWorkflow /\ Mode \notin {"baseline", "embeddings"}

\* the superstep after the extractor has begun (or the request is over)
RouteTaken == "extractor" \in finished /\ tasks["extractor"] = "idle"

\* C35: for every retrieval_mode other than "baseline" and "embeddings",
\* declared or not, the split after the extractor activates both
\* cypher_gen and prompt_eng, and a request that reaches END has run the
\* seven stages.
C35_OtherModeIsHybrid ==
  (OtherMode /\ RouteTaken) =>
    /\ \A n \in {"cypher_gen", "prompt_eng"} : tasks[n] # "idle" \/ runs[n] = 1
    /\ wf = "end" => \A n \in Nodes : runs[n] = 1

C35_Witness ==
  /\ InWorkflow /\ Mode = "fusion"
  /\ tasks["cypher_gen"] = "running" /\ tasks["prompt_eng"] = "running"

UnknownSelector == InWorkflow /\ state["selected_model"].s \notin KnownModels

UnknownModelAnswer == SynthesisError("Unknown model")

SynthesizerAnswer ==
  IF "final_answer" \in DOMAIN writes["synthesizer"]
  THEN writes["synthesizer"]["final_answer"]
  ELSE state["final_answer"]

\* C38: with a selector get_llm does not know, the synthesizer does not
\* raise: it returns the synthesis error text with the factory's error
\* without calling a model, and once the synthesizer has been started the
\* request reaches END with that text as final_answer.
C38_UnknownModelCaught ==
  /\ [](UnknownSelector =>
          /\ tasks["synthesizer"] # "raised"
          /\ ext.invokes = 0
          /\ "synthesizer" \in finished => SynthesizerAnswer = UnknownModelAnswer)
  /\ ((UnknownSelector /\ runs["synthesizer"] > 0)
        ~> (wf = "end" /\ state["final_answer"] = UnknownModelAnswer))

C38_Witness ==
  /\ UnknownSelector /\ wf = "end"
  /\ state["final_answer"] = UnknownModelAnswer
  /\ "answer" \in ext.failures

\* C36: a stage returns an update with exactly its own output fields, the
\* request state changes only when such an update is applied, field by
\* field, and user_query, retrieval_mode and selected_model never change.
C36_StagesWriteOwnFields ==
  [][InWorkflow =>
       /\ \A n \in Nodes :
            (tasks[n] = "running" /\ tasks'[n] = "done") =>
              DOMAIN writes'[n] = OutputFields(n)
       /\ \A k \in Keys :
            state'[k] # state[k] =>
              \E n \in Nodes :
                /\ tasks[n] = "done"
                /\ k \in OutputFields(n)
                /\ k \in DOMAIN writes[n]
       /\ \A k \in InputFields : state'[k] = state[k]]_vars

\* the number of positions the index really found
RealNeighbours(hits) == Cardinality({i \in 1..Len(hits) : hits[i] >= 0})

\* C37: search_knowledge_base returns no snippet for a slot the index
\* filled with -1: it never returns more snippets than the index found
\* neighbours, and none when the index found none.
C37_NoSnippetForPadding ==
  (wf = "search" /\ ext.loaded /\ ret # <<>>) =>
    /\ Len(ret[1].docs.l) <= RealNeighbours(ret[1].hits)
    /\ RealNeighbours(ret[1].hits) = 0 => ret[1].docs = List(<<>>)

====
